---- MODULE Spec2Model ----
(***************************************************************************)
(* Model of src/render.ts (namespace render): the Vec3Pool free list, the  *)
(* withVec3Frame scoped helper, and the vector helpers dot and cross3To.   *)
(*                                                                         *)
(* A Vec3 is a JavaScript array object: it has an identity (a reference)   *)
(* and contents.  Buffers are numbered 1, 2, ... in allocation order and   *)
(* heap[id] is the contents of buffer id.  The code's 0-based store[i] is  *)
(* store[i+1] here; top keeps the code's value.                            *)
(***************************************************************************)
EXTENDS Integers, Sequences, FiniteSets

\* ---- bounds of the model ------------------------------------------------
MaxCap == 2      \* largest capacity passed to the constructor
MaxBufs == 3     \* most Vec3 objects ever allocated in one run
MaxComp == 1     \* vector components of the math inputs range over -MaxComp..MaxComp

VARIABLES
    store,        \* Vec3Pool.store : sequence of buffer references
    top,          \* Vec3Pool.top
    heap,         \* contents of every allocated Vec3, by reference
    capacity,     \* the constructor's argument
    call,         \* the latest call: its name, argument, result, raised error, and (for
                  \* the pool's methods) available() before it, (for cross3To) the heap before it
    pc,           \* "idle", or "work" while withVec3Frame is running its callback
    workCalls,    \* how often the running/latest withVec3Frame invoked work
    thrown,       \* the error raised by work in the latest withVec3Frame, or "none"
    held,         \* history: buffers checked out to the caller since the last reset
    disciplined,  \* history: the caller released only held buffers so far
    relRun,       \* history: buffers stored by the current run of releases, not yet re-acquired
    acqRun,       \* history: acquires since construction, -1 once a release or reset happened
    roundTrip,    \* history: after v = acquire(); release(v), available() before the acquire; else -1
    aliased       \* history: some acquire returned a buffer that was still checked out

vars == <<store, top, heap, capacity, call, pc, workCalls, thrown,
          held, disciplined, relRun, acqRun, roundTrip, aliased>>

Errs == {"E1", "E2"}
Zero3 == <<0, 0, 0>>
Dirty3 == <<1, 2, 3>>

Range(s) == {s[i] : i \in DOMAIN s}
Front(s) == SubSeq(s, 1, Len(s) - 1)

Call(op, arg, ret, raised, before) ==
    [op |-> op, arg |-> arg, ret |-> ret, raised |-> raised, before |-> before]

\* ---- vector helpers -------------------------------------------------------

\* dot(vec1, vec2)
dot(vec1, vec2) == vec1[1] * vec2[1] + vec1[2] * vec2[2] + vec1[3] * vec2[3]

\* set3(out, x, y, z) on heap h
set3(h, out, x, y, z) == [h EXCEPT ![out] = <<x, y, z>>]

\* A cross product with the operands of the y component swapped.
cross3ToSign(h, out, a, b) ==
    LET ax == h[a][1]  ay == h[a][2]  az == h[a][3]
        bx == h[b][1]  by == h[b][2]  bz == h[b][3]
    IN  [h EXCEPT ![out] = <<ay * bz - az * by, ax * bz + az * bx, ax * by - ay * bx>>]

\* A cross product that writes each component before reading the next operands.
cross3ToInPlace(h, out, a, b) ==
    LET h1 == [h EXCEPT ![out][1] = h[a][2] * h[b][3] - h[a][3] * h[b][2]]
        h2 == [h1 EXCEPT ![out][2] = h1[a][3] * h1[b][1] - h1[a][1] * h1[b][3]]
    IN  [h2 EXCEPT ![out][3] = h2[a][1] * h2[b][2] - h2[a][2] * h2[b][1]]

\* cross3To(out, a, b) on heap h: the six reads into locals, then the three writes.
cross3To(h, out, a, b) ==
    LET ax == h[a][1]  ay == h[a][2]  az == h[a][3]
        bx == h[b][1]  by == h[b][2]  bz == h[b][3]
        h1 == [h EXCEPT ![out][1] = ay * bz - az * by]
        h2 == [h1 EXCEPT ![out][2] = az * bx - ax * bz]
    IN  [h2 EXCEPT ![out][3] = ax * by - ay * bx]

\* ---- Vec3Pool ---------------------------------------------------------------

\* new Vec3Pool(n): n pushes of a fresh [0,0,0], then top = n.
Construct(n) ==
    /\ store = [i \in 1..n |-> i]
    /\ heap = [i \in 1..n |-> Zero3]
    /\ top = n
    /\ capacity = n

Init ==
    /\ \E n \in 0..MaxCap : Construct(n)
    /\ call = Call("new", 0, 0, "none", 0)
    /\ pc = "idle"
    /\ workCalls = 0
    /\ thrown = "none"
    /\ held = {}
    /\ disciplined = TRUE
    /\ relRun = <<>>
    /\ acqRun = 0
    /\ roundTrip = -1
    /\ aliased = FALSE

\* available()
available == top

AcquireHistory(v) ==
    /\ held' = held \cup {v}
    /\ relRun' = IF relRun = <<>> THEN <<>> ELSE Front(relRun)
    /\ acqRun' = IF acqRun < 0 THEN -1 ELSE acqRun + 1
    /\ aliased' = (aliased \/ v \in held)
    /\ roundTrip' = -1
    /\ UNCHANGED disciplined

\* acquire() that raises an error on exhaustion instead of allocating.
AcquireThrows ==
    /\ IF top > 0
       THEN /\ top' = top - 1
            /\ call' = Call("acquire", 0, store[top], "none", top)
            /\ AcquireHistory(store[top])
       ELSE /\ top' = top
            /\ call' = Call("acquire", 0, 0, "E1", top)
            /\ UNCHANGED <<held, relRun, acqRun, disciplined, aliased>>
            /\ roundTrip' = -1
    /\ UNCHANGED <<store, heap, capacity, pc, workCalls, thrown>>

\* acquire() that hands out the oldest slot instead of the newest.
AcquireFifo ==
    /\ IF top > 0
       THEN /\ top' = top - 1
            /\ heap' = heap
            /\ call' = Call("acquire", 0, store[1], "none", top)
            /\ AcquireHistory(store[1])
       ELSE /\ Len(heap) < MaxBufs
            /\ top' = top
            /\ heap' = Append(heap, Zero3)
            /\ call' = Call("acquire", 0, Len(heap) + 1, "none", top)
            /\ AcquireHistory(Len(heap) + 1)
    /\ UNCHANGED <<store, capacity, pc, workCalls, thrown>>

\* acquire()
Acquire ==
    /\ IF top > 0
       THEN /\ top' = top - 1
            /\ heap' = heap
            /\ call' = Call("acquire", 0, store[top], "none", top)
            /\ AcquireHistory(store[top])
       ELSE /\ Len(heap) < MaxBufs
            /\ top' = top
            /\ heap' = Append(heap, Zero3)
            /\ call' = Call("acquire", 0, Len(heap) + 1, "none", top)
            /\ AcquireHistory(Len(heap) + 1)
    /\ UNCHANGED <<store, capacity, pc, workCalls, thrown>>

ReleaseHistory(v, stored) ==
    /\ held' = held \ {v}
    /\ disciplined' = (disciplined /\ v \in held)
    /\ relRun' = IF ~stored THEN <<>>
                 ELSE IF call.op = "release" THEN Append(relRun, v)
                 ELSE <<v>>
    /\ acqRun' = -1
    /\ roundTrip' = IF call.op = "acquire" /\ call.ret = v THEN call.before ELSE -1
    /\ UNCHANGED aliased

\* release(v) without the capacity test: the array grows.
ReleaseUnguarded(v) ==
    /\ store' = IF top < Len(store) THEN [store EXCEPT ![top + 1] = v]
                ELSE Append(store, v)
    /\ top' = top + 1
    /\ call' = Call("release", v, 0, "none", top)
    /\ ReleaseHistory(v, TRUE)
    /\ UNCHANGED <<heap, capacity, pc, workCalls, thrown>>

\* release(v) that stores v but leaves the cursor where it was.
ReleaseNoInc(v) ==
    /\ IF top < Len(store)
       THEN store' = [store EXCEPT ![top + 1] = v]
       ELSE store' = store
    /\ top' = top
    /\ call' = Call("release", v, 0, "none", top)
    /\ ReleaseHistory(v, top < Len(store))
    /\ UNCHANGED <<heap, capacity, pc, workCalls, thrown>>

\* release(v) that overwrites the last slot when the pool is full.
ReleaseOverwrite(v) ==
    /\ IF top < Len(store)
       THEN /\ store' = [store EXCEPT ![top + 1] = v]
            /\ top' = top + 1
       ELSE /\ store' = IF top > 0 THEN [store EXCEPT ![top] = v] ELSE store
            /\ top' = top
    /\ call' = Call("release", v, 0, "none", top)
    /\ ReleaseHistory(v, top < Len(store))
    /\ UNCHANGED <<heap, capacity, pc, workCalls, thrown>>

\* release(v)
Release(v) ==
    /\ IF top < Len(store)
       THEN /\ store' = [store EXCEPT ![top + 1] = v]
            /\ top' = top + 1
       ELSE /\ store' = store
            /\ top' = top
    /\ call' = Call("release", v, 0, "none", top)
    /\ ReleaseHistory(v, top < Len(store))
    /\ UNCHANGED <<heap, capacity, pc, workCalls, thrown>>

\* reset() that empties the pool instead of refilling it.
ResetEmpty ==
    /\ top' = 0
    /\ store' = store

\* reset(): the assignment to top
PoolReset ==
    /\ top' = Len(store)
    /\ store' = store

\* a call of reset()
Reset ==
    /\ PoolReset
    /\ call' = Call("reset", 0, 0, "none", top)
    /\ held' = {}
    /\ relRun' = <<>>
    /\ acqRun' = -1
    /\ roundTrip' = -1
    /\ UNCHANGED <<heap, capacity, pc, workCalls, thrown, disciplined, aliased>>

\* ---- the caller's own code ------------------------------------------------

\* The caller allocates a Vec3 of its own.
NewVec3 ==
    /\ Len(heap) < MaxBufs
    /\ heap' = Append(heap, Zero3)
    /\ call' = Call("alloc", 0, Len(heap) + 1, "none", 0)
    /\ roundTrip' = -1
    /\ UNCHANGED <<store, top, capacity, pc, workCalls, thrown,
                   held, disciplined, relRun, acqRun, aliased>>

\* The caller writes into a buffer it has a reference to.
Set3(out) ==
    /\ heap' = set3(heap, out, Dirty3[1], Dirty3[2], Dirty3[3])
    /\ call' = Call("set3", out, out, "none", 0)
    /\ roundTrip' = -1
    /\ UNCHANGED <<store, top, capacity, pc, workCalls, thrown,
                   held, disciplined, relRun, acqRun, aliased>>

\* ---- withVec3Frame ----------------------------------------------------------

\* withVec3Frame(pool, work): entering the try block calls work().
FrameEnter ==
    /\ pc = "idle"
    /\ pc' = "work"
    /\ workCalls' = 1
    /\ thrown' = "none"
    /\ call' = Call("work", 0, 0, "none", 0)
    /\ roundTrip' = -1
    /\ UNCHANGED <<store, top, heap, capacity, held, disciplined, relRun, acqRun, aliased>>

FrameHistory ==
    /\ held' = {}
    /\ relRun' = <<>>
    /\ acqRun' = -1
    /\ roundTrip' = -1
    /\ UNCHANGED <<disciplined, aliased>>

\* work raises e and there is no finally block: the pool is not reset.
FrameThrowNoFinally(e) ==
    /\ pc = "work"
    /\ thrown' = e
    /\ pc' = "idle"
    /\ call' = Call("withVec3Frame", 0, 0, e, top)
    /\ roundTrip' = -1
    /\ UNCHANGED <<store, top, heap, capacity, workCalls,
                   held, disciplined, relRun, acqRun, aliased>>

\* work() returns; the finally block resets the pool; withVec3Frame returns.
FrameReturn ==
    /\ pc = "work"
    /\ PoolReset
    /\ pc' = "idle"
    /\ call' = Call("withVec3Frame", 0, 0, "none", top)
    /\ FrameHistory
    /\ UNCHANGED <<heap, capacity, workCalls, thrown>>

\* work() raises e; the finally block resets the pool; e propagates.
FrameThrow(e) ==
    /\ pc = "work"
    /\ thrown' = e
    /\ PoolReset
    /\ pc' = "idle"
    /\ call' = Call("withVec3Frame", 0, 0, e, top)
    /\ FrameHistory
    /\ UNCHANGED <<heap, capacity, workCalls>>

\* The caller drives the pool directly and writes into buffers it can reach.
Next ==
    \/ Acquire
    \/ \E v \in DOMAIN heap : Release(v)
    \/ Reset
    \/ NewVec3
    \/ \E out \in DOMAIN heap : Set3(out)

Spec == Init /\ [][Next]_vars

\* The caller runs frames through withVec3Frame; work, and the caller between
\* frames, acquire, release and reset.
NextFrame ==
    \/ FrameEnter
    \/ Acquire
    \/ \E v \in DOMAIN heap : Release(v)
    \/ Reset
    \/ FrameReturn
    \/ \E e \in Errs : FrameThrow(e)

SpecFrame == Init /\ [][NextFrame]_vars

\* ---- the vector helpers applied to caller buffers --------------------------

Comp == (0 - MaxComp)..MaxComp
Vec == {<<x, y, z>> : x \in Comp, y \in Comp, z \in Comp}

\* Three caller buffers with arbitrary contents; the pool plays no part.
InitMath ==
    /\ \E va \in Vec, vb \in Vec, vo \in {Zero3, Dirty3} : heap = <<va, vb, vo>>
    /\ store = <<>>
    /\ top = 0
    /\ capacity = 0
    /\ call = Call("new", 0, 0, "none", 0)
    /\ pc = "idle"
    /\ workCalls = 0
    /\ thrown = "none"
    /\ held = {}
    /\ disciplined = TRUE
    /\ relRun = <<>>
    /\ acqRun = 0
    /\ roundTrip = -1
    /\ aliased = FALSE

\* A call cross3To(out, a, b) on three references, any of which may coincide.
Cross3ToCall(out, a, b) ==
    /\ call.op = "new"
    /\ heap' = cross3To(heap, out, a, b)
    /\ call' = Call("cross3To", <<out, a, b>>, out, "none", heap)
    /\ UNCHANGED <<store, top, capacity, pc, workCalls, thrown,
                   held, disciplined, relRun, acqRun, roundTrip, aliased>>

NextMath == \E out \in DOMAIN heap, a \in DOMAIN heap, b \in DOMAIN heap : Cross3ToCall(out, a, b)

SpecMath == InitMath /\ [][NextMath]_vars

\* ---- properties ---------------------------------------------------------------

\* C1 (as stated): in every reachable state, the exhausted one included,
\* v = acquire() immediately followed by release(v) leaves available() at the
\* value it had before the acquire.
C1_RoundTripAlways ==
    roundTrip >= 0 => available = roundTrip

\* C1 (amended): v = acquire() immediately followed by release(v) leaves
\* available() at the value it had before the acquire whenever the pool was not
\* exhausted before the acquire or has capacity 0; from the exhausted state of
\* a pool of positive capacity the pair leaves available() at 1.
C1_RoundTrip ==
    roundTrip >= 0 =>
        IF roundTrip > 0 \/ capacity = 0 THEN available = roundTrip ELSE available = 1

C1_Witness ==
    /\ roundTrip > 0
    /\ call.op = "release"
    /\ available = roundTrip

\* C2: after any sequence of acquire, release (of any buffer) and reset,
\* 0 <= top <= N and the store array keeps length N.
C2_TopInRange ==
    /\ 0 <= top
    /\ top <= capacity
    /\ Len(store) = capacity

C2_Witness ==
    /\ call.op = "release"
    /\ ~disciplined
    /\ call.before = capacity
    /\ call.arg > capacity
    /\ capacity > 0

\* C3: when withVec3Frame exits it has called work exactly once and reset the
\* pool, so available() == capacity, whether work returned or raised, and the
\* error work raised (if any) is the one that reaches the caller.
C3_FrameResets ==
    call.op = "withVec3Frame" =>
        /\ workCalls = 1
        /\ available = capacity
        /\ call.raised = thrown

C3_Witness ==
    /\ call.op = "withVec3Frame"
    /\ thrown \in Errs
    /\ call.raised = thrown
    /\ call.before < capacity
    /\ available = capacity

\* C4: after construction available() == N; after exactly N acquires with no
\* release or reset in between available() == 0; every acquire in the exhausted
\* state raises nothing, leaves available() at 0 and returns a buffer that did
\* not exist before the call (so it is in no store slot and was returned by no
\* earlier acquire) and holds [0,0,0].
C4_ExhaustedAcquire ==
    /\ [](call.op = "new" => available = capacity)
    /\ [](acqRun = capacity => available = 0)
    /\ [][(call'.op = "acquire" /\ top = 0) =>
            /\ call'.raised = "none"
            /\ top' = 0
            /\ call'.ret \notin DOMAIN heap
            /\ call'.ret \in DOMAIN heap'
            /\ Len(heap'[call'.ret]) = 3
            /\ heap'[call'.ret] = Zero3
            /\ call'.ret \notin Range(store')
            /\ call'.ret \notin held]_vars

C4_Witness ==
    /\ call.op = "acquire"
    /\ call.before = 0
    /\ capacity > 0
    /\ acqRun = capacity + 1
    /\ \E i \in DOMAIN heap : heap[i] = Dirty3

\* C5: reset() sets available() to the capacity from every reachable state and
\* changes neither the slots nor the length of the store array.
C5_ResetRestores ==
    [][call'.op = "reset" =>
        /\ top' = capacity
        /\ store' = store
        /\ Len(store') = Len(store)
        /\ heap' = heap]_vars

C5_Witness ==
    /\ call.op = "reset"
    /\ call.before < capacity
    /\ ~disciplined
    /\ \E i \in DOMAIN store : store[i] > capacity

\* C6: release(v) on a full pool raises nothing and leaves top and every slot
\* unchanged; on a non-full pool it writes v into slot top, increments top by
\* one and leaves every other slot unchanged.
C6_ReleaseFrame ==
    [][call'.op = "release" =>
        /\ call'.raised = "none"
        /\ DOMAIN store' = DOMAIN store
        /\ IF top = Len(store)
           THEN /\ top' = top
                /\ \A i \in DOMAIN store : store'[i] = store[i]
           ELSE /\ top' = top + 1
                /\ store'[top + 1] = call'.arg
                /\ \A i \in DOMAIN store : i # top + 1 => store'[i] = store[i]]_vars

C6_Witness ==
    /\ call.op = "release"
    /\ call.before = capacity
    /\ top = capacity
    /\ call.arg \notin Range(store)

\* C7: the pool is last-in-first-out: after k successive releases that found a
\* free slot, the following successive acquires return the released buffers in
\* reverse order of release (k = 1: the acquire after a release returns that
\* buffer).
C7_Lifo ==
    [][(call'.op = "acquire" /\ relRun # <<>>) => call'.ret = relRun[Len(relRun)]]_vars

C7_Witness ==
    /\ call.op = "acquire"
    /\ Len(relRun) = 1
    /\ call.ret # relRun[1]

\* The cross product of two values, as the claim writes it.
CrossOf(u, v) ==
    <<u[2] * v[3] - u[3] * v[2], u[3] * v[1] - u[1] * v[3], u[1] * v[2] - u[2] * v[1]>>

\* C8: cross3To(out, a, b) writes the cross product of the values a and b held
\* before the call, whether out is a separate buffer, a, b, or both; when out
\* is separate, a and b are left unchanged.
C8_AliasSafe ==
    call.op = "cross3To" =>
        LET out == call.arg[1]
            a == call.arg[2]
            b == call.arg[3]
            pre == call.before
        IN  /\ heap[out] = CrossOf(pre[a], pre[b])
            /\ (out # a /\ out # b) => (heap[a] = pre[a] /\ heap[b] = pre[b])
            /\ \A i \in DOMAIN heap : i # out => heap[i] = pre[i]

C8_Witness ==
    /\ call.op = "cross3To"
    /\ call.arg[1] = call.arg[2]
    /\ call.arg[2] # call.arg[3]
    /\ heap[call.arg[1]] # Zero3
    /\ heap[call.arg[1]] # call.before[call.arg[1]]

\* C9: the vector written by cross3To(out, a, b) is orthogonal to both inputs,
\* and cross3To(out, [1,0,0], [0,1,0]) writes [0,0,1].
C9_Orthogonal ==
    call.op = "cross3To" =>
        LET out == call.arg[1]
            va == call.before[call.arg[2]]
            vb == call.before[call.arg[3]]
        IN  /\ dot(heap[out], va) = 0
            /\ dot(heap[out], vb) = 0
            /\ (va = <<1, 0, 0>> /\ vb = <<0, 1, 0>>) => heap[out] = <<0, 0, 1>>

C9_Witness ==
    /\ call.op = "cross3To"
    /\ call.before[call.arg[2]] = <<1, 0, 0>>
    /\ call.before[call.arg[3]] = <<0, 1, 0>>
    /\ heap[call.arg[1]] = <<0, 0, 1>>

\* C10: while the caller releases only buffers it holds, each at most once, and
\* gives up every buffer at each reset, no acquire returns a buffer that is
\* still checked out from an earlier acquire.
C10_NoAliasing ==
    disciplined => ~aliased

====
